---- MODULE Spec2Model ----
(***************************************************************************)
(* State-machine model of the terminal client in src/src/main.rs: the      *)
(* three resource lists (Sitzungen, Tops, Anträge), the edit buffer, the   *)
(* mode slots (currently_editing, currently_creating, edit_param_pop), the *)
(* focused resources and the HTTP requests each key press issues.          *)
(*                                                                         *)
(* Option<T> is modelled as a sequence: None is <<>>, Some(x) is <<x>>.    *)
(* A text (Rust String) is a sequence of one-character strings.            *)
(* A Uuid is modelled by its hyphenated string form, which is both what    *)
(* Uuid::to_string and its serde serialisation produce.                    *)
(***************************************************************************)
EXTENDS Integers, Sequences, FiniteSets, TLC

\* ------------------------------------------------------------------ bounds
\* longest text the text area lets the operator type (further characters
\* are not typed once the buffer holds this many)
MaxText == 2
\* number of key presses of a run
MaxKeys == 6
\* number of operations recorded by the list-level specification
MaxOps == 5
\* longest list the list-level specification starts from
MaxItems == 4

\* --------------------------------------------------------------- Option<T>
None == <<>>

Some(x) == <<x>>

unwrap_or(o, d) == IF o = None THEN d ELSE o[1]

\* ------------------------------------------------------- usize arithmetic
\* usize::MAX. On a 64-bit target this is 2^64 - 1; the model keeps the
\* largest value the checker's integers hold. Only its being larger than
\* every list length and every index matters to the code below.
USIZE_MAX == 2147483647

\* a - b on usize: with overflow checks (debug profile) an underflow
\* panics (None), without them (release profile) it wraps around.
usize_sub(a, b, checks) ==
    IF a >= b THEN Some(a - b)
    ELSE IF checks THEN None
    ELSE Some((USIZE_MAX - (b - a)) + 1)

\* ---------------------------------------------------------- StatefulList
with_items(items) ==
    [items |-> items, selected |-> Some(0), last_selected |-> None]

\* The index next() selects; None when the computation panics.
next_index_nowrap(l, checks) ==
    IF l.selected # None
    THEN Some(l.selected[1] + 1)
    ELSE Some(unwrap_or(l.last_selected, 0))

next_index(l, checks) ==
    IF l.selected # None
    THEN LET i == l.selected[1] IN
         IF Len(l.items) = 1 THEN Some(0)
         ELSE LET m == usize_sub(Len(l.items), 1, checks) IN
              IF m = None THEN None
              ELSE IF m[1] = i THEN Some(0) ELSE Some(i + 1)
    ELSE Some(unwrap_or(l.last_selected, 0))

\* StatefulList::next: None when it panics, Some(list) otherwise.
next(l, checks) ==
    LET i == next_index(l, checks) IN
    IF i = None THEN None ELSE Some([l EXCEPT !.selected = i])

previous_index_len(l, checks) ==
    IF l.selected # None
    THEN LET i == l.selected[1] IN
         IF i = 0 THEN Some(Len(l.items)) ELSE Some(i - 1)
    ELSE Some(unwrap_or(l.last_selected, 0))

previous_index_nowrap(l, checks) ==
    IF l.selected # None
    THEN LET i == l.selected[1] IN
         IF i = 0 THEN Some(0) ELSE Some(i - 1)
    ELSE Some(unwrap_or(l.last_selected, 0))

previous_index(l, checks) ==
    IF l.selected # None
    THEN LET i == l.selected[1] IN
         IF i = 0 THEN usize_sub(Len(l.items), 1, checks)
         ELSE Some(i - 1)
    ELSE Some(unwrap_or(l.last_selected, 0))

\* StatefulList::previous: None when it panics, Some(list) otherwise.
previous(l, checks) ==
    LET i == previous_index(l, checks) IN
    IF i = None THEN None ELSE Some([l EXCEPT !.selected = i])

unselect_forget(l) ==
    [l EXCEPT !.last_selected = None, !.selected = None]

\* StatefulList::unselect (the scroll offset it preserves is rendering).
unselect(l) ==
    [l EXCEPT !.last_selected = l.selected, !.selected = None]

\* -------------------------------------------------------------- resources
\* SelectedLayout
Sitzungen == "Sitzungen"

Tops == "Tops"

Antraege == "Anträge"

\* Uuid::default(), the nil UUID
NilUuid == "00000000-0000-0000-0000-000000000000"

\* ids the server hands out, in the order it creates resources
SitzungIds == <<"s1", "s2", "s3">>

TopIds == <<"t1", "t2", "t3">>

AntragIds == <<"a1", "a2">>

\* NaiveDateTime::default() is 1970-01-01 00:00:00; a date is modelled by
\* one character for the calendar date and one for the time of day.
DefaultDate == [date |-> "0", time |-> "0"]

\* Display for NaiveDateTime: date, a space, time ("2024-05-01 10:00:00")
DateToString(dt) == <<dt.date, " ", dt.time>>

\* serde for NaiveDateTime: date, 'T', time ("2024-05-01T10:00:00")
DateToJson(dt) == <<dt.date, "T", dt.time>>

\* serde_json::Value as stored in Top.inhalt: Null or String(text)
JsonNull == <<"Null">>

JsonString(t) == <<"String", t>>

RECURSIVE JsonEscape(_)
\* serde_json's string escaping of the characters the model uses
JsonEscape(t) ==
    IF t = <<>> THEN <<>>
    ELSE (IF Head(t) = "\n" THEN <<"\\", "n">>
          ELSE IF Head(t) = "\"" THEN <<"\\", "\"">>
          ELSE IF Head(t) = "\\" THEN <<"\\", "\\">>
          ELSE <<Head(t)>>) \o JsonEscape(Tail(t))

\* Display for serde_json::Value (Value::to_string): the JSON text
JsonToString(v) ==
    IF v = JsonNull THEN <<"n", "u", "l", "l">>
    ELSE <<"\"">> \o JsonEscape(v[2]) \o <<"\"">>

\* Sitzung::default(), Top::default(), Antrag::default()
DefaultSitzung == [name |-> <<>>, datum |-> DefaultDate, id |-> NilUuid]

DefaultTop == [name |-> <<>>, id |-> NilUuid, inhalt |-> JsonNull, weight |-> 0]

DefaultAntrag ==
    [id |-> NilUuid, titel |-> <<>>, begruendung |-> <<>>, antragstext |-> <<>>]

\* Param
Param(titel, text) == [titel |-> titel, text |-> text]

\* str::to_lowercase on the labels the edit buffer uses
to_lowercase(s) ==
    CASE s = "Datum" -> "datum"
      [] s = "Name" -> "name"
      [] s = "Titel" -> "titel"
      [] s = "Inhalt" -> "inhalt"
      [] s = "Begründung" -> "begründung"
      [] s = "Antragstext" -> "antragstext"
      [] s = "Antragssteller" -> "antragssteller"
      [] OTHER -> s

\* ------------------------------------------------------------- JSON bodies
\* serde_json::json!({}) and data[key] = value on an object
EmptyJson == [k \in {} |-> <<>>]

JsonSet(data, k, v) ==
    [x \in (DOMAIN data) \cup {k} |-> IF x = k THEN v ELSE data[x]]

RECURSIVE ParamsInto_raw(_, _)
ParamsInto_raw(data, items) ==
    IF items = <<>> THEN data
    ELSE ParamsInto_raw(JsonSet(data, Head(items).titel, Head(items).text),
                        Tail(items))

RECURSIVE ParamsInto(_, _)
\* for param in &self.edit_buffer.items { data[lower(titel)] = text }
ParamsInto(data, items) ==
    IF items = <<>> THEN data
    ELSE ParamsInto(JsonSet(data, to_lowercase(Head(items).titel), Head(items).text),
                    Tail(items))

\* --------------------------------------------------------------- requests
Cookie_bare(token) == <<token>>

\* format!("access_token={}", token)
Cookie(token) == <<"access_token=", token>>

Request(method, url, cookie, json) ==
    [method |-> method, url |-> url, cookie |-> cookie, json |-> json]

\* ----------------------------------------------------------------- server
\* The remote API the client talks to (URL, main.rs line 26), as far as the
\* client reads and writes it. Reads return what the store holds; a write
\* the server accepts is applied to the store, a write it rejects (an HTTP
\* error status, which the client never inspects) leaves it unchanged.

\* what the store holds when the client starts
InitialServer ==
    [sitzungen |-> << [name |-> <<"a">>, datum |-> [date |-> "1", time |-> "1"], id |-> "s1"],
                      [name |-> <<"b">>, datum |-> [date |-> "2", time |-> "2"], id |-> "s2"] >>,
     tops |-> << [name |-> <<"c">>, id |-> "t1", inhalt |-> JsonString(<<"i">>),
                  weight |-> 0, sitzung_id |-> "s1"],
                 [name |-> <<"d">>, id |-> "t2", inhalt |-> JsonNull,
                  weight |-> 0, sitzung_id |-> "s1"] >>,
     antraege |-> << [id |-> "a1", titel |-> <<"m">>, begruendung |-> <<>>,
                      antragstext |-> <<"x", "\n">>, top_id |-> "t1"] >>,
     made |-> [s |-> 2, t |-> 2, a |-> 1]]

\* the Top the client deserialises (struct Top has no sitzung_id)
TopView(t) == [name |-> t.name, id |-> t.id, inhalt |-> t.inhalt, weight |-> t.weight]

\* the Antrag the client deserialises (struct Antrag has no top_id)
AntragView(a) ==
    [id |-> a.id, titel |-> a.titel, begruendung |-> a.begruendung,
     antragstext |-> a.antragstext]

\* GET api/topmanager/sitzungen/
SrvSitzungen(srv) == srv.sitzungen

\* GET api/topmanager/sitzung/{id}/tops/
SrvTops(srv, sid) ==
    LET under(t) == t.sitzung_id = sid
        found == SelectSeq(srv.tops, under)
    IN [i \in 1..Len(found) |-> TopView(found[i])]

\* GET api/topmanager/tops/{id}/anträge/
SrvAntraege(srv, tid) ==
    LET under(a) == a.top_id = tid
        found == SelectSeq(srv.antraege, under)
    IN [i \in 1..Len(found) |-> AntragView(found[i])]

\* GET of one resource: None when the server has no such resource (the
\* body then does not deserialise)
SrvFind(seq, id) ==
    LET is(r) == r.id = id
        hit == SelectSeq(seq, is)
    IN IF hit = <<>> THEN None ELSE Some(hit[1])

\* GET api/topmanager/sitzung/{id}/
SrvSitzung(srv, id) == SrvFind(srv.sitzungen, id)

\* GET api/topmanager/tops/{id}/
SrvTop(srv, id) ==
    LET r == SrvFind(srv.tops, id) IN IF r = None THEN None ELSE Some(TopView(r[1]))

\* GET api/topmanager/antrag/{id}/
SrvAntrag(srv, id) ==
    LET r == SrvFind(srv.antraege, id) IN IF r = None THEN None ELSE Some(AntragView(r[1]))

\* DELETE of one resource by id: the store after it, None when the server
\* rejects it
SrvDelete(srv, kind, id) ==
    LET keep(r) == r.id # id IN
    CASE kind = Sitzungen ->
           Some([srv EXCEPT !.sitzungen = SelectSeq(@, keep)])
      [] kind = Tops ->
           Some([srv EXCEPT !.tops = SelectSeq(@, keep)])
      [] OTHER ->
           Some([srv EXCEPT !.antraege = SelectSeq(@, keep)])

\* the date a text denotes to the server: either separator is read
ParseDate(text) ==
    IF Len(text) = 3 /\ text[2] \in {"T", " "}
    THEN Some([date |-> text[1], time |-> text[3]])
    ELSE None

\* the body has every field the server reads
Storable(body, names) == \A k \in names : k \in DOMAIN body

\* PUT: the store after the create, None when the server rejects it
SrvCreate(srv, kind, scope, body) ==
    CASE kind = Sitzungen ->
           IF /\ srv.made.s < Len(SitzungIds)
              /\ Storable(body, {"datum", "name"})
              /\ ParseDate(body["datum"]) # None
           THEN Some([srv EXCEPT
                  !.made.s = @ + 1,
                  !.sitzungen = Append(@, [name |-> body["name"],
                                           datum |-> ParseDate(body["datum"])[1],
                                           id |-> SitzungIds[srv.made.s + 1]])])
           ELSE None
      [] kind = Tops ->
           IF /\ srv.made.t < Len(TopIds)
              /\ Storable(body, {"titel", "inhalt"})
              /\ SrvSitzung(srv, scope) # None
           THEN Some([srv EXCEPT
                  !.made.t = @ + 1,
                  !.tops = Append(@, [name |-> body["titel"],
                                      id |-> TopIds[srv.made.t + 1],
                                      inhalt |-> JsonString(body["inhalt"]),
                                      weight |-> 0,
                                      sitzung_id |-> scope])])
           ELSE None
      [] OTHER ->
           IF /\ srv.made.a < Len(AntragIds)
              /\ Storable(body, {"titel", "begründung", "antragstext", "antragssteller"})
              /\ SrvFind(srv.tops, scope) # None
           THEN Some([srv EXCEPT
                  !.made.a = @ + 1,
                  !.antraege = Append(@, [id |-> AntragIds[srv.made.a + 1],
                                          titel |-> body["titel"],
                                          begruendung |-> body["begründung"],
                                          antragstext |-> body["antragstext"],
                                          top_id |-> scope])])
           ELSE None

\* PATCH: the store after the update of the resource body.id names, None
\* when the server rejects it
SrvPatch(srv, kind, body) ==
    CASE kind = Sitzungen ->
           IF /\ SrvSitzung(srv, body["id"]) # None
              /\ Storable(body, {"datum", "name"})
              /\ ParseDate(body["datum"]) # None
           THEN LET upd(r) == IF r.id = body["id"]
                              THEN [r EXCEPT !.name = body["name"],
                                             !.datum = ParseDate(body["datum"])[1]]
                              ELSE r
                IN Some([srv EXCEPT !.sitzungen = [i \in 1..Len(@) |-> upd(@[i])]])
           ELSE None
      [] kind = Tops ->
           IF /\ SrvFind(srv.tops, body["id"]) # None
              /\ Storable(body, {"titel", "inhalt"})
              /\ SrvSitzung(srv, body["sitzung_id"]) # None
           THEN LET upd(r) == IF r.id = body["id"]
                              THEN [r EXCEPT !.name = body["titel"],
                                             !.inhalt = JsonString(body["inhalt"]),
                                             !.sitzung_id = body["sitzung_id"]]
                              ELSE r
                IN Some([srv EXCEPT !.tops = [i \in 1..Len(@) |-> upd(@[i])]])
           ELSE None
      [] OTHER ->
           IF /\ SrvFind(srv.antraege, body["id"]) # None
              /\ Storable(body, {"titel", "begründung", "antragstext"})
           THEN LET upd(r) == IF r.id = body["id"]
                              THEN [r EXCEPT !.titel = body["titel"],
                                             !.begruendung = body["begründung"],
                                             !.antragstext = body["antragstext"]]
                              ELSE r
                IN Some([srv EXCEPT !.antraege = [i \in 1..Len(@) |-> upd(@[i])]])
           ELSE None

\* -------------------------------------------------------------- text area
\* TextArea::default(): one empty line, cursor at its end
EmptyTextArea == << <<>> >>

RECURSIVE SplitLines(_, _)
\* the lines of a text: it is cut at every "\n"
SplitLines(lines, t) ==
    IF t = <<>> THEN lines
    ELSE IF Head(t) = "\n" THEN SplitLines(Append(lines, <<>>), Tail(t))
    ELSE SplitLines([lines EXCEPT ![Len(lines)] = Append(@, Head(t))], Tail(t))

\* TextArea::insert_str into an empty text area
insert_str(t) == SplitLines(EmptyTextArea, t)

RECURSIVE concat_lines(_)
\* self.current_text_area.lines().concat()
concat_lines(lines) ==
    IF lines = <<>> THEN <<>> ELSE Head(lines) \o concat_lines(Tail(lines))

\* number of characters and line breaks the text area holds
TextAreaSize(lines) == Len(concat_lines(lines)) + (Len(lines) - 1)

\* the keys the operator presses in the field editor besides Esc: a
\* character key (q is typed like any other character), Enter, Backspace
TextKeys == {"q", "Enter", "Backspace"}

\* TextArea::input with the cursor at the end of the text
text_area_input(lines, key) ==
    LET n == Len(lines) IN
    CASE key = "Enter" -> Append(lines, <<>>)
      [] key = "Backspace" ->
           IF lines[n] # <<>>
           THEN [lines EXCEPT ![n] = SubSeq(@, 1, Len(@) - 1)]
           ELSE IF n > 1 THEN SubSeq(lines, 1, n - 1) ELSE lines
      [] OTHER -> [lines EXCEPT ![n] = Append(@, key)]

\* ------------------------------------------------------------------- state
VARIABLES
    sitzungen,              \* App.sitzungen: StatefulList<Sitzung>
    tops_selected_sitzung,  \* App.tops_selected_sitzung: StatefulList<Top>
    antraege_selected_top,  \* App.anträge_selected_top: StatefulList<Antrag>
    layout,                 \* App.layout: SelectedLayout
    currently_editing,      \* App.currently_editing: Option<SelectedLayout>
    edit_buffer,            \* App.edit_buffer: StatefulList<Param>
    currently_creating,     \* App.currently_creating: Option<SelectedLayout>
    edit_param_pop,         \* App.edit_param_pop: Option<Param>
    current_text_area,      \* App.current_text_area: the lines of the TextArea
    sitzung,                \* App.sitzung: the Sitzung last opened
    top,                    \* App.top: the Top last opened
    token,                  \* App.token
    antrag,                 \* App.antrag: the Antrag last fetched for editing
    server,                 \* the store behind the remote API
    overflow_checks,        \* whether the build panics on integer overflow
    status,                 \* "running", "exited" (exit_app) or "panicked"
    sent,                   \* the requests the last key press issued, in order
    keys,                   \* history: number of key presses so far
    began,                  \* history: id of the item selected when `e` began the edit
    opened,                 \* history: ids last opened with `o` (Sitzung, Top)
    committed,              \* history: the mode slots and Params the last key committed
    key,                    \* history: the action of the last step
    was,                    \* history: the App and the store the last step found
    sl,                     \* the list of the list-level specification
    ops                     \* the operations applied to sl, with the selection before each

lists == <<sitzungen, tops_selected_sitzung, antraege_selected_top>>

modes == <<currently_editing, currently_creating, edit_param_pop>>

focus == <<sitzung, top, antrag>>

editor == <<edit_buffer, current_text_area>>

env == <<token, overflow_checks>>

hist == <<began, opened, committed, key, was>>

pressed == <<keys>>

unit == <<sl, ops>>

vars == <<lists, layout, modes, focus, editor, env, server, status, sent, hist, pressed, unit>>

\* the token keycloak::get_token returns
Token == "tok"

\* the fields of App a key press finds
Snapshot ==
    [layout |-> layout,
     sitzungen |-> sitzungen,
     tops_selected_sitzung |-> tops_selected_sitzung,
     antraege_selected_top |-> antraege_selected_top,
     sitzung |-> sitzung,
     top |-> top,
     currently_editing |-> currently_editing,
     currently_creating |-> currently_creating,
     edit_buffer |-> edit_buffer,
     edit_param_pop |-> edit_param_pop,
     current_text_area |-> current_text_area,
     server |-> server]

\* what is kept of the App a step found when the step ends the process
Forgotten == [panicked |-> TRUE]

\* the step of action a is recorded
Did(a) == key' = a

\* App::new
Init ==
    /\ sitzungen = with_items(SrvSitzungen(InitialServer))
    /\ tops_selected_sitzung = with_items(<<>>)
    /\ antraege_selected_top = with_items(<<>>)
    /\ layout = Sitzungen
    /\ currently_editing = None
    /\ currently_creating = None
    /\ edit_buffer = with_items(<<>>)
    /\ edit_param_pop = None
    /\ current_text_area = EmptyTextArea
    /\ sitzung = DefaultSitzung
    /\ top = DefaultTop
    /\ token = Token
    /\ antrag = DefaultAntrag
    /\ server = InitialServer
    /\ overflow_checks \in BOOLEAN
    /\ status = "running"
    /\ sent = <<>>
    /\ keys = 0
    /\ began = None
    /\ opened = [s |-> None, t |-> None]
    /\ committed = None
    /\ key = "none"
    /\ was = Snapshot
    /\ sl = with_items(<<>>)
    /\ ops = <<>>

\* --------------------------------------------------------------- dispatch
Handler_by_layout ==
    IF edit_param_pop # None THEN "handle_text_area"
    ELSE IF layout = Sitzungen THEN "handle_sitzungen"
    ELSE IF layout = Tops THEN "handle_tops"
    ELSE "handle_anträge"

Handler_no_creating ==
    IF edit_param_pop # None THEN "handle_text_area"
    ELSE IF currently_editing # None THEN "handle_edit"
    ELSE IF layout = Sitzungen THEN "handle_sitzungen"
    ELSE IF layout = Tops THEN "handle_tops"
    ELSE "handle_anträge"

\* App::run: the handler that reads the next key
Handler ==
    IF edit_param_pop # None THEN "handle_text_area"
    ELSE IF currently_editing # None THEN "handle_edit"
    ELSE IF currently_creating # None THEN "handle_edit"
    ELSE IF layout = Sitzungen THEN "handle_sitzungen"
    ELSE IF layout = Tops THEN "handle_tops"
    ELSE "handle_anträge"

\* the loop of App::run reads a key in the given handler
Reads(h) == status = "running" /\ keys < MaxKeys /\ Handler = h

\* a panic (unwrap on None or Err, index out of bounds, overflow) ends the
\* process after the requests reqs were issued. The fields of App do not
\* outlive the process: they are modelled as those of an empty App.
PanicsAt(reqs, c, w) ==
    /\ status' = "panicked"
    /\ sent' = reqs
    /\ sitzungen' = with_items(<<>>)
    /\ tops_selected_sitzung' = with_items(<<>>)
    /\ antraege_selected_top' = with_items(<<>>)
    /\ layout' = Sitzungen
    /\ currently_editing' = None
    /\ currently_creating' = None
    /\ edit_buffer' = with_items(<<>>)
    /\ edit_param_pop' = None
    /\ current_text_area' = EmptyTextArea
    /\ sitzung' = DefaultSitzung
    /\ top' = DefaultTop
    /\ antrag' = DefaultAntrag
    /\ keys' = keys + 1
    /\ committed' = c
    /\ was' = w
    /\ UNCHANGED <<env, began, opened, unit>>

PanicsIn(reqs, c) == PanicsAt(reqs, c, Forgotten)

Panics(reqs) == PanicsIn(reqs, None)

\* began names the edited item from `e` until the key after the commit,
\* committed what a commit found until the key after it
Kept ==
    /\ began' = IF Handler \in {"handle_edit", "handle_text_area"} THEN began ELSE None
    /\ committed' = None
    /\ was' = Snapshot

SelectedItem_or_first(l) ==
    IF l.items = <<>> THEN None
    ELSE IF l.selected = None THEN Some(l.items[1])
    ELSE IF l.selected[1] >= Len(l.items) THEN None
    ELSE Some(l.items[l.selected[1] + 1])

\* the item self.<list>.items[selected] reads; None when unwrap or the
\* index panics
SelectedItem(l) ==
    IF l.selected = None THEN None
    ELSE IF l.selected[1] >= Len(l.items) THEN None
    ELSE Some(l.items[l.selected[1] + 1])

\* ------------------------------------------------- keys without a request
\* what a key press that issues no request and does not end the process
\* leaves alone besides the variables it assigns
Local ==
    /\ sent' = <<>>
    /\ Kept
    /\ keys' = keys + 1
    /\ UNCHANGED <<env, server, status, opened, unit>>

\* handle_sitzungen, q / Esc: App::exit_app
exit_app ==
    /\ Reads("handle_sitzungen")
    /\ Did("exit_app")
    /\ status' = "exited"
    /\ sent' = <<>>
    /\ Kept
    /\ keys' = keys + 1
    /\ UNCHANGED <<lists, layout, modes, focus, editor, env, server, opened, unit>>

switch_layout_stay(l) == layout' = layout

\* App::switch_layout
switch_layout(l) == layout' = l

\* handle_tops, q / Esc
tops_back ==
    /\ Reads("handle_tops")
    /\ Did("tops_back")
    /\ switch_layout(Sitzungen)
    /\ Local
    /\ UNCHANGED <<lists, modes, focus, editor>>

\* handle_anträge, q / Esc
antraege_back ==
    /\ Reads("handle_anträge")
    /\ Did("antraege_back")
    /\ switch_layout(Tops)
    /\ Local
    /\ UNCHANGED <<lists, modes, focus, editor>>

\* any key no arm of the handler matches (`_ => {}`)
other_key ==
    /\ status = "running"
    /\ Did("other_key")
    /\ keys < MaxKeys
    /\ Handler # "handle_text_area"
    /\ Local
    /\ UNCHANGED <<lists, layout, modes, focus, editor>>

\* handle_sitzungen, h / Left
sitzungen_unselect ==
    /\ Reads("handle_sitzungen")
    /\ Did("sitzungen_unselect")
    /\ sitzungen' = unselect(sitzungen)
    /\ Local
    /\ UNCHANGED <<tops_selected_sitzung, antraege_selected_top, layout, modes, focus, editor>>

\* handle_sitzungen, j / Down
sitzungen_next ==
    /\ Reads("handle_sitzungen")
    /\ Did("sitzungen_next")
    /\ LET r == next(sitzungen, overflow_checks) IN
       IF r = None THEN Panics(<<>>) /\ UNCHANGED server
       ELSE /\ sitzungen' = r[1]
            /\ Local
            /\ UNCHANGED <<tops_selected_sitzung, antraege_selected_top, layout, modes, focus, editor>>

\* handle_sitzungen, k / Up
sitzungen_previous ==
    /\ Reads("handle_sitzungen")
    /\ Did("sitzungen_previous")
    /\ LET r == previous(sitzungen, overflow_checks) IN
       IF r = None THEN Panics(<<>>) /\ UNCHANGED server
       ELSE /\ sitzungen' = r[1]
            /\ Local
            /\ UNCHANGED <<tops_selected_sitzung, antraege_selected_top, layout, modes, focus, editor>>

\* handle_tops, h / Left
tops_unselect ==
    /\ Reads("handle_tops")
    /\ Did("tops_unselect")
    /\ tops_selected_sitzung' = unselect(tops_selected_sitzung)
    /\ Local
    /\ UNCHANGED <<sitzungen, antraege_selected_top, layout, modes, focus, editor>>

\* handle_tops, j / Down
tops_next ==
    /\ Reads("handle_tops")
    /\ Did("tops_next")
    /\ LET r == next(tops_selected_sitzung, overflow_checks) IN
       IF r = None THEN Panics(<<>>) /\ UNCHANGED server
       ELSE /\ tops_selected_sitzung' = r[1]
            /\ Local
            /\ UNCHANGED <<sitzungen, antraege_selected_top, layout, modes, focus, editor>>

\* handle_tops, k / Up
tops_previous ==
    /\ Reads("handle_tops")
    /\ Did("tops_previous")
    /\ LET r == previous(tops_selected_sitzung, overflow_checks) IN
       IF r = None THEN Panics(<<>>) /\ UNCHANGED server
       ELSE /\ tops_selected_sitzung' = r[1]
            /\ Local
            /\ UNCHANGED <<sitzungen, antraege_selected_top, layout, modes, focus, editor>>

\* handle_anträge, h / Left
antraege_unselect ==
    /\ Reads("handle_anträge")
    /\ Did("antraege_unselect")
    /\ antraege_selected_top' = unselect(antraege_selected_top)
    /\ Local
    /\ UNCHANGED <<sitzungen, tops_selected_sitzung, layout, modes, focus, editor>>

\* handle_anträge, j / Down
antraege_next ==
    /\ Reads("handle_anträge")
    /\ Did("antraege_next")
    /\ LET r == next(antraege_selected_top, overflow_checks) IN
       IF r = None THEN Panics(<<>>) /\ UNCHANGED server
       ELSE /\ antraege_selected_top' = r[1]
            /\ Local
            /\ UNCHANGED <<sitzungen, tops_selected_sitzung, layout, modes, focus, editor>>

\* handle_anträge, k / Up
antraege_previous ==
    /\ Reads("handle_anträge")
    /\ Did("antraege_previous")
    /\ LET r == previous(antraege_selected_top, overflow_checks) IN
       IF r = None THEN Panics(<<>>) /\ UNCHANGED server
       ELSE /\ antraege_selected_top' = r[1]
            /\ Local
            /\ UNCHANGED <<sitzungen, tops_selected_sitzung, layout, modes, focus, editor>>

\* handle_edit, h / Left
edit_unselect ==
    /\ Reads("handle_edit")
    /\ Did("edit_unselect")
    /\ edit_buffer' = unselect(edit_buffer)
    /\ Local
    /\ UNCHANGED <<lists, layout, modes, focus, current_text_area>>

\* handle_edit, j / Down
edit_next ==
    /\ Reads("handle_edit")
    /\ Did("edit_next")
    /\ LET r == next(edit_buffer, overflow_checks) IN
       IF r = None THEN Panics(<<>>) /\ UNCHANGED server
       ELSE /\ edit_buffer' = r[1]
            /\ Local
            /\ UNCHANGED <<lists, layout, modes, focus, current_text_area>>

\* handle_edit, k / Up
edit_previous ==
    /\ Reads("handle_edit")
    /\ Did("edit_previous")
    /\ LET r == previous(edit_buffer, overflow_checks) IN
       IF r = None THEN Panics(<<>>) /\ UNCHANGED server
       ELSE /\ edit_buffer' = r[1]
            /\ Local
            /\ UNCHANGED <<lists, layout, modes, focus, current_text_area>>

\* ------------------------------------------------------------ create (`p`)
\* self.edit_buffer.items.push(param) for each param in turn
Push(l, params) == [l EXCEPT !.items = @ \o params]

CreateParams_noAntragssteller(kind) ==
    CASE kind = Sitzungen -> <<Param("Datum", <<>>), Param("Name", <<>>)>>
      [] kind = Tops -> <<Param("Titel", <<>>), Param("Inhalt", <<>>)>>
      [] OTHER -> <<Param("Titel", <<>>), Param("Begründung", <<>>),
                    Param("Antragstext", <<>>)>>

\* the Params `p` stages for each resource kind
CreateParams(kind) ==
    CASE kind = Sitzungen -> <<Param("Datum", <<>>), Param("Name", <<>>)>>
      [] kind = Tops -> <<Param("Titel", <<>>), Param("Inhalt", <<>>)>>
      [] OTHER -> <<Param("Titel", <<>>), Param("Begründung", <<>>),
                    Param("Antragstext", <<>>), Param("Antragssteller", <<>>)>>

\* handle_sitzungen, p: App::create_sitzung
create_sitzung ==
    /\ Reads("handle_sitzungen")
    /\ Did("create_sitzung")
    /\ edit_buffer' = Push(edit_buffer, CreateParams(Sitzungen))
    /\ currently_creating' = Some(Sitzungen)
    /\ Local
    /\ UNCHANGED <<lists, layout, currently_editing, edit_param_pop, focus, current_text_area>>

\* handle_tops, p: App::create_top
create_top ==
    /\ Reads("handle_tops")
    /\ Did("create_top")
    /\ edit_buffer' = Push(edit_buffer, CreateParams(Tops))
    /\ currently_creating' = Some(Tops)
    /\ Local
    /\ UNCHANGED <<lists, layout, currently_editing, edit_param_pop, focus, current_text_area>>

\* handle_anträge, p: App::create_antrag
create_antrag ==
    /\ Reads("handle_anträge")
    /\ Did("create_antrag")
    /\ edit_buffer' = Push(edit_buffer, CreateParams(Antraege))
    /\ currently_creating' = Some(Antraege)
    /\ Local
    /\ UNCHANGED <<lists, layout, currently_editing, edit_param_pop, focus, current_text_area>>

\* ------------------------------------------------------------ field editor
\* handle_edit, e: App::edit_value
edit_value ==
    /\ Reads("handle_edit")
    /\ Did("edit_value")
    /\ LET param == SelectedItem(edit_buffer) IN
       IF param = None THEN PanicsAt(<<>>, None, Snapshot) /\ UNCHANGED server
       ELSE /\ edit_param_pop' = param
            /\ current_text_area' = insert_str(param[1].text)
            /\ Local
            /\ UNCHANGED <<lists, layout, currently_editing, currently_creating,
                           focus, edit_buffer>>

update_every(buffer, lines) ==
    IF SelectedItem(buffer) = None THEN None
    ELSE Some([buffer EXCEPT !.items =
                 [i \in DOMAIN @ |-> [@[i] EXCEPT !.text = concat_lines(lines)]]])

\* App::update: the text of the selected Param becomes the concatenated
\* lines of the text area; None when unwrap or the index panics
update(buffer, lines) ==
    IF SelectedItem(buffer) = None THEN None
    ELSE Some([buffer EXCEPT !.items[buffer.selected[1] + 1].text = concat_lines(lines)])

\* handle_text_area, Esc
text_area_esc ==
    /\ Reads("handle_text_area")
    /\ Did("text_area_esc")
    /\ LET b == update(edit_buffer, current_text_area) IN
       IF b = None THEN Panics(<<>>) /\ UNCHANGED server
       ELSE /\ edit_buffer' = b[1]
            /\ edit_param_pop' = None
            /\ Local
            /\ UNCHANGED <<lists, layout, currently_editing, currently_creating,
                           focus, current_text_area>>

\* handle_text_area, any other key: self.current_text_area.input(key)
text_area_key ==
    /\ Reads("handle_text_area")
    /\ Did("text_area_key")
    /\ \E k \in TextKeys :
         /\ k = "Backspace" \/ TextAreaSize(current_text_area) < MaxText
         /\ current_text_area' = text_area_input(current_text_area, k)
    /\ Local
    /\ UNCHANGED <<lists, layout, modes, focus, edit_buffer>>

\* ---------------------------------------------------------------- requests
\* how a write ends: the server applies it, the server answers with an error
\* status (send() is still Ok and the response is never read), or send()
\* fails and unwrap panics
WriteOutcomes == {"ok", "rejected", "error"}

Get(url) == Request("GET", url, None, None)

GetSitzungen == Get(<<"api/topmanager/sitzungen/">>)

GetTops_unscoped(sid) == Get(<<"api/topmanager/sitzung/", NilUuid, "/tops/">>)

GetTops(sid) == Get(<<"api/topmanager/sitzung/", sid, "/tops/">>)

GetAntraege(tid) == Get(<<"api/topmanager/tops/", tid, "/anträge/">>)

\* a key press that issued the requests reqs and returned
Returned(reqs) ==
    /\ sent' = reqs
    /\ keys' = keys + 1
    /\ UNCHANGED <<env, status, unit>>

\* ------------------------------------------------------------ open (`o`)
\* handle_sitzungen, o: App::open_sitzung
open_sitzung ==
    /\ Reads("handle_sitzungen")
    /\ Did("open_sitzung")
    /\ LET it == SelectedItem(sitzungen) IN
       IF it = None THEN PanicsAt(<<>>, None, Snapshot) /\ UNCHANGED server
       ELSE \E ok \in BOOLEAN :
            IF ~ok THEN PanicsAt(<<GetTops(it[1].id)>>, None, Snapshot) /\ UNCHANGED server
            ELSE /\ sitzung' = it[1]
                 /\ tops_selected_sitzung' = with_items(SrvTops(server, it[1].id))
                 /\ layout' = Tops
                 /\ opened' = [opened EXCEPT !.s = Some(it[1].id)]
                 /\ Returned(<<GetTops(it[1].id)>>)
                 /\ UNCHANGED <<sitzungen, antraege_selected_top, modes, top, antrag,
                                editor, server>>
                 /\ Kept

\* handle_tops, o: App::open_top
open_top ==
    /\ Reads("handle_tops")
    /\ Did("open_top")
    /\ LET it == SelectedItem(tops_selected_sitzung) IN
       IF it = None THEN PanicsAt(<<>>, None, Snapshot) /\ UNCHANGED server
       ELSE \E ok \in BOOLEAN :
            IF ~ok THEN PanicsAt(<<GetAntraege(it[1].id)>>, None, Snapshot) /\ UNCHANGED server
            ELSE /\ top' = it[1]
                 /\ antraege_selected_top' = with_items(SrvAntraege(server, it[1].id))
                 /\ layout' = Antraege
                 /\ opened' = [opened EXCEPT !.t = Some(it[1].id)]
                 /\ Returned(<<GetAntraege(it[1].id)>>)
                 /\ UNCHANGED <<sitzungen, tops_selected_sitzung, modes, sitzung, antrag,
                                editor, server>>
                 /\ Kept

\* ------------------------------------------------------------- edit (`e`)
\* the Params `e` stages from the fetched resource
SitzungParams(r) == <<Param("Datum", DateToString(r.datum)), Param("Name", r.name)>>

TopParams(r) == <<Param("Titel", r.name), Param("Inhalt", JsonToString(r.inhalt))>>

AntragParams(r) ==
    <<Param("Titel", r.titel), Param("Begründung", r.begruendung),
      Param("Antragstext", r.antragstext)>>

Shadowed_item(item, fetched) == item

\* `let sitzung: Sitzung = response.json().unwrap();` shadows the list item
\* of the same name: the Params are staged from the fetched resource
Shadowed(item, fetched) == fetched

\* handle_sitzungen, e: App::edit_sitzung
edit_sitzung ==
    /\ Reads("handle_sitzungen")
    /\ Did("edit_sitzung")
    /\ LET it == SelectedItem(sitzungen) IN
       IF it = None THEN PanicsAt(<<>>, None, Snapshot) /\ UNCHANGED server
       ELSE LET req == Get(<<"api/topmanager/sitzung/", it[1].id, "/">>)
                got == SrvSitzung(server, it[1].id)
            IN \E ok \in BOOLEAN :
               IF ~ok \/ got = None
               THEN Panics(<<req>>) /\ UNCHANGED server
               ELSE /\ edit_buffer' = Push(edit_buffer, SitzungParams(Shadowed(it[1], got[1])))
                    /\ currently_editing' = Some(Sitzungen)
                    /\ began' = Some(it[1].id)
                    /\ committed' = None
                    /\ was' = Snapshot
                    /\ Returned(<<req>>)
                    /\ UNCHANGED <<lists, layout, currently_creating, edit_param_pop,
                                   focus, current_text_area, server, opened>>

\* handle_tops, e: App::edit_top
edit_top ==
    /\ Reads("handle_tops")
    /\ Did("edit_top")
    /\ LET it == SelectedItem(tops_selected_sitzung) IN
       IF it = None THEN PanicsAt(<<>>, None, Snapshot) /\ UNCHANGED server
       ELSE LET req == Get(<<"api/topmanager/tops/", it[1].id, "/">>)
                got == SrvTop(server, it[1].id)
            IN \E ok \in BOOLEAN :
               IF ~ok \/ got = None
               THEN Panics(<<req>>) /\ UNCHANGED server
               ELSE /\ edit_buffer' = Push(edit_buffer, TopParams(Shadowed(it[1], got[1])))
                    /\ currently_editing' = Some(Tops)
                    /\ began' = Some(it[1].id)
                    /\ committed' = None
                    /\ was' = Snapshot
                    /\ Returned(<<req>>)
                    /\ UNCHANGED <<lists, layout, currently_creating, edit_param_pop,
                                   focus, current_text_area, server, opened>>

\* handle_anträge, e: App::edit_antag
edit_antag ==
    /\ Reads("handle_anträge")
    /\ Did("edit_antag")
    /\ LET it == SelectedItem(antraege_selected_top) IN
       IF it = None THEN PanicsAt(<<>>, None, Snapshot) /\ UNCHANGED server
       ELSE LET req == Get(<<"api/topmanager/antrag/", it[1].id, "/">>)
                got == SrvAntrag(server, it[1].id)
            IN \E ok \in BOOLEAN :
               IF ~ok \/ got = None
               THEN Panics(<<req>>) /\ UNCHANGED server
               ELSE /\ antrag' = Shadowed(it[1], got[1])
                    /\ edit_buffer' = Push(edit_buffer, AntragParams(Shadowed(it[1], got[1])))
                    /\ currently_editing' = Some(Antraege)
                    /\ began' = Some(it[1].id)
                    /\ committed' = None
                    /\ was' = Snapshot
                    /\ Returned(<<req>>)
                    /\ UNCHANGED <<lists, layout, currently_creating, edit_param_pop,
                                   sitzung, top, current_text_area, server, opened>>

\* ----------------------------------------------------------- delete (`d`)
Relisted_locally(l, fetched) ==
    [l EXCEPT !.items = SubSeq(@, 1, l.selected[1]) \o
                        SubSeq(@, l.selected[1] + 2, Len(@))]

\* the list `d` leaves: with_items of the list fetched after the DELETE; the
\* list held before is dropped
Relisted(l, fetched) == with_items(fetched)

\* handle_sitzungen, d: App::delete_sitzung, then App::get_sitzungen
delete_sitzung ==
    /\ Reads("handle_sitzungen")
    /\ Did("delete_sitzung")
    /\ LET it == SelectedItem(sitzungen) IN
       IF it = None THEN PanicsAt(<<>>, None, Snapshot) /\ UNCHANGED server
       ELSE LET del == Request("DELETE", <<"api/topmanager/sitzung/">>,
                               Some(Cookie(token)),
                               Some(JsonSet(EmptyJson, "id", it[1].id)))
            IN \E w \in WriteOutcomes, ok \in BOOLEAN :
               LET deleted == SrvDelete(server, Sitzungen, it[1].id)
                   srv == IF w = "ok" THEN deleted[1] ELSE server
               IN /\ w = "ok" => deleted # None
                  /\ IF w = "error"
                     THEN Panics(<<del>>) /\ UNCHANGED server
                     ELSE IF ~ok
                     THEN Panics(<<del, GetSitzungen>>) /\ server' = srv
                     ELSE /\ server' = srv
                          /\ sitzungen' = Relisted(sitzungen, SrvSitzungen(srv))
                          /\ Returned(<<del, GetSitzungen>>)
                          /\ UNCHANGED <<tops_selected_sitzung, antraege_selected_top,
                                         layout, modes, focus, editor, opened>>
                          /\ Kept

\* handle_tops, d: App::delete_top, then get_tops(self.sitzung)
delete_top ==
    /\ Reads("handle_tops")
    /\ Did("delete_top")
    /\ LET it == SelectedItem(tops_selected_sitzung) IN
       IF it = None THEN PanicsAt(<<>>, None, Snapshot) /\ UNCHANGED server
       ELSE LET del == Request("DELETE", <<"api/topmanager/top/">>,
                               Some(Cookie(token)),
                               Some(JsonSet(EmptyJson, "id", it[1].id)))
            IN \E w \in WriteOutcomes, ok \in BOOLEAN :
               LET deleted == SrvDelete(server, Tops, it[1].id)
                   srv == IF w = "ok" THEN deleted[1] ELSE server
               IN /\ w = "ok" => deleted # None
                  /\ IF w = "error"
                     THEN Panics(<<del>>) /\ UNCHANGED server
                     ELSE IF ~ok
                     THEN Panics(<<del, GetTops(sitzung.id)>>) /\ server' = srv
                     ELSE /\ server' = srv
                          /\ tops_selected_sitzung' = Relisted(tops_selected_sitzung, SrvTops(srv, sitzung.id))
                          /\ Returned(<<del, GetTops(sitzung.id)>>)
                          /\ UNCHANGED <<sitzungen, antraege_selected_top,
                                         layout, modes, focus, editor, opened>>
                          /\ Kept

\* handle_anträge, d: App::delete_antrag, then get_anträge(self.top)
delete_antrag ==
    /\ Reads("handle_anträge")
    /\ Did("delete_antrag")
    /\ LET it == SelectedItem(antraege_selected_top) IN
       IF it = None THEN PanicsAt(<<>>, None, Snapshot) /\ UNCHANGED server
       ELSE LET del == Request("DELETE", <<"api/topmanager/antrag/", it[1].id, "/">>,
                               Some(Cookie(token)), None)
            IN \E w \in WriteOutcomes, ok \in BOOLEAN :
               LET deleted == SrvDelete(server, Antraege, it[1].id)
                   srv == IF w = "ok" THEN deleted[1] ELSE server
               IN /\ w = "ok" => deleted # None
                  /\ IF w = "error"
                     THEN Panics(<<del>>) /\ UNCHANGED server
                     ELSE IF ~ok
                     THEN Panics(<<del, GetAntraege(top.id)>>) /\ server' = srv
                     ELSE /\ server' = srv
                          /\ antraege_selected_top' = Relisted(antraege_selected_top, SrvAntraege(srv, top.id))
                          /\ Returned(<<del, GetAntraege(top.id)>>)
                          /\ UNCHANGED <<sitzungen, tops_selected_sitzung,
                                         layout, modes, focus, editor, opened>>
                          /\ Kept

\* ------------------------------------------------- commit (q / Esc in edit)
\* App::patch: the PATCH it sends for the kind in currently_editing; None
\* when it panics before sending (unwrap or index on the Tops selection)
patch_request ==
    CASE currently_editing = Some(Sitzungen) ->
           Some(Request("PATCH", <<"api/topmanager/sitzung/">>, Some(Cookie(token)),
                        Some(ParamsInto(JsonSet(EmptyJson, "id", sitzung.id),
                                        edit_buffer.items))))
      [] currently_editing = Some(Tops) ->
           LET t == SelectedItem(tops_selected_sitzung) IN
           IF t = None THEN None
           ELSE Some(Request("PATCH", <<"api/topmanager/top/">>, Some(Cookie(token)),
                        Some(ParamsInto(JsonSet(JsonSet(EmptyJson, "id", t[1].id),
                                                "sitzung_id", sitzung.id),
                                        edit_buffer.items))))
      [] OTHER ->
           Some(Request("PATCH", <<"api/topmanager/antrag/">>, Some(Cookie(token)),
                        Some(ParamsInto(JsonSet(EmptyJson, "id", antrag.id),
                                        edit_buffer.items))))

\* the parent id App::put writes into the URL; None for a Sitzung
put_scope_top_under_top ==
    CASE currently_creating = Some(Sitzungen) -> None
      [] currently_creating = Some(Tops) -> Some(top.id)
      [] OTHER -> Some(top.id)

put_scope ==
    CASE currently_creating = Some(Sitzungen) -> None
      [] currently_creating = Some(Tops) -> Some(sitzung.id)
      [] OTHER -> Some(top.id)

\* App::put: the PUT it sends for the kind in currently_creating
put_request ==
    LET url == CASE currently_creating = Some(Sitzungen) -> <<"api/topmanager/sitzung/">>
                 [] currently_creating = Some(Tops) ->
                      <<"api/topmanager/sitzung/", put_scope[1], "/top/">>
                 [] OTHER -> <<"api/topmanager/top/", put_scope[1], "/antrag/">>
    IN Request("PUT", url, Some(Cookie(token)),
               Some(ParamsInto(EmptyJson, edit_buffer.items)))

\* the refresh at the end of App::exit_edit: get_sitzungen(),
\* get_tops(self.sitzung), get_anträge(self.top), in this order
Refetch == <<GetSitzungen, GetTops(sitzung.id), GetAntraege(top.id)>>

Discarded_keep_creating ==
    /\ currently_editing' = None
    /\ currently_creating' = currently_creating
    /\ edit_buffer' = with_items(<<>>)

Discarded_keep_editing ==
    /\ currently_editing' = currently_editing
    /\ currently_creating' = None
    /\ edit_buffer' = with_items(<<>>)

\* App::exit_edit: both mode slots are cleared and the edit buffer replaced
\* by an empty list
Discarded ==
    /\ currently_editing' = None
    /\ currently_creating' = None
    /\ edit_buffer' = with_items(<<>>)

\* handle_edit, q / Esc: App::exit_edit
exit_edit ==
    /\ Reads("handle_edit")
    /\ Did("exit_edit")
    /\ \E w1 \in WriteOutcomes, w2 \in WriteOutcomes, g \in 0..3 :
       LET doPatch == currently_editing # None
           preq == patch_request
           patched == SrvPatch(server, currently_editing[1], preq[1].json[1])
           reqsA == IF doPatch /\ preq # None THEN <<preq[1]>> ELSE <<>>
           panicA == doPatch /\ (preq = None \/ w1 = "error")
           srvA == IF doPatch /\ preq # None /\ w1 = "ok" THEN patched[1] ELSE server
           doPut == currently_creating # None
           qreq == put_request
           created == SrvCreate(srvA, currently_creating[1],
                                unwrap_or(put_scope, NilUuid), qreq.json[1])
           reqsB == IF doPut THEN Append(reqsA, qreq) ELSE reqsA
           panicB == doPut /\ w2 = "error"
           srvB == IF doPut /\ w2 = "ok" THEN created[1] ELSE srvA
           found == [editing |-> currently_editing, creating |-> currently_creating,
                     items |-> edit_buffer.items]
       IN /\ (doPatch /\ preq # None /\ w1 = "ok") => patched # None
          /\ (~panicA /\ doPut /\ w2 = "ok") => created # None
          /\ IF panicA THEN PanicsIn(reqsA, Some(found)) /\ UNCHANGED server
             ELSE IF panicB THEN PanicsIn(reqsB, Some(found)) /\ server' = srvA
             ELSE IF g # 0
             THEN /\ PanicsIn(reqsB \o SubSeq(Refetch, 1, g), Some(found))
                  /\ server' = srvB
             ELSE /\ server' = srvB
                  /\ Discarded
                  /\ sitzungen' = with_items(SrvSitzungen(srvB))
                  /\ tops_selected_sitzung' = with_items(SrvTops(srvB, sitzung.id))
                  /\ antraege_selected_top' = with_items(SrvAntraege(srvB, top.id))
                  /\ committed' = Some(found)
                  /\ was' = Snapshot
                  /\ Returned(reqsB \o Refetch)
                  /\ UNCHANGED <<layout, edit_param_pop, focus, current_text_area,
                                 began, opened>>

\* -------------------------------------------------------- other clients
\* The API serves other clients too (spec.md: the locally held copy is
\* "possibly stale"). Once, right after the client fetched a list, another
\* client renames the first resource of that list's kind to OtherName.
OtherName == <<"z">>

Untouched ==
    /\ \A i \in DOMAIN server.sitzungen : server.sitzungen[i].name # OtherName
    /\ \A i \in DOMAIN server.tops : server.tops[i].name # OtherName
    /\ \A i \in DOMAIN server.antraege : server.antraege[i].titel # OtherName

elsewhere ==
    /\ status = "running"
    /\ keys < MaxKeys
    /\ Untouched
    /\ Did("elsewhere")
    /\ was' = Snapshot
    /\ CASE key = "none" ->
              /\ server.sitzungen # <<>>
              /\ server' = [server EXCEPT !.sitzungen[1].name = OtherName]
         [] key = "open_sitzung" ->
              /\ server.tops # <<>>
              /\ server' = [server EXCEPT !.tops[1].name = OtherName]
         [] key = "open_top" ->
              /\ server.antraege # <<>>
              /\ server' = [server EXCEPT !.antraege[1].titel = OtherName]
         [] OTHER -> FALSE
    /\ UNCHANGED <<lists, layout, modes, focus, editor, env, status, sent,
                   began, opened, committed, pressed, unit>>

\* ---------------------------------------------------------- specification
Next ==
    \/ exit_app
    \/ sitzungen_unselect
    \/ sitzungen_next
    \/ sitzungen_previous
    \/ open_sitzung
    \/ edit_sitzung
    \/ create_sitzung
    \/ delete_sitzung
    \/ tops_back
    \/ tops_unselect
    \/ tops_next
    \/ tops_previous
    \/ open_top
    \/ edit_top
    \/ create_top
    \/ delete_top
    \/ antraege_back
    \/ antraege_unselect
    \/ antraege_next
    \/ antraege_previous
    \/ edit_antag
    \/ create_antrag
    \/ delete_antrag
    \/ exit_edit
    \/ edit_unselect
    \/ edit_next
    \/ edit_previous
    \/ edit_value
    \/ text_area_esc
    \/ text_area_key
    \/ other_key
    \/ elsewhere

Spec == Init /\ [][Next]_vars

\* ------------------------------------------- list-level specification
\* StatefulList on its own: a list built by with_items from 0..MaxItems
\* items, then any MaxOps calls of next, previous and unselect. ops records
\* each call with the selection it found.
ItemLists == {[i \in 1..n |-> i] : n \in 0..MaxItems}

ListInit ==
    /\ sitzungen = with_items(<<>>)
    /\ tops_selected_sitzung = with_items(<<>>)
    /\ antraege_selected_top = with_items(<<>>)
    /\ layout = Sitzungen
    /\ currently_editing = None
    /\ currently_creating = None
    /\ edit_buffer = with_items(<<>>)
    /\ edit_param_pop = None
    /\ current_text_area = EmptyTextArea
    /\ sitzung = DefaultSitzung
    /\ top = DefaultTop
    /\ token = Token
    /\ antrag = DefaultAntrag
    /\ server = InitialServer
    /\ overflow_checks \in BOOLEAN
    /\ status = "running"
    /\ sent = <<>>
    /\ keys = 0
    /\ began = None
    /\ opened = [s |-> None, t |-> None]
    /\ committed = None
    /\ key = "none"
    /\ was = Snapshot
    /\ \E items \in ItemLists : sl = with_items(items)
    /\ ops = <<>>

\* one call on sl: it returns the list r[1], or panics when r is None
Called(op, r) ==
    /\ status = "running"
    /\ Len(ops) < MaxOps
    /\ ops' = Append(ops, [op |-> op, before |-> sl.selected])
    /\ IF r = None
       THEN status' = "panicked" /\ UNCHANGED sl
       ELSE sl' = r[1] /\ UNCHANGED status
    /\ UNCHANGED <<lists, layout, modes, focus, editor, env, server, sent, hist, pressed>>

sl_next == Called("next", next(sl, overflow_checks))

sl_previous == Called("previous", previous(sl, overflow_checks))

sl_unselect == Called("unselect", Some(unselect(sl)))

ListNext == sl_next \/ sl_previous \/ sl_unselect

ListSpec == ListInit /\ [][ListNext]_vars

\* ------------------------------------------------------------ properties
IsMutating(r) == r.method \in {"PATCH", "PUT", "DELETE"}

IsPatch(r) == r.method = "PATCH"

IsPut(r) == r.method = "PUT"

\* the four StatefulLists of App
AppLists == {sitzungen, tops_selected_sitzung, antraege_selected_top, edit_buffer}

\* the wire name of each label: the label in lower case
WireName ==
    [l \in {"Datum", "Name", "Titel", "Inhalt", "Begründung", "Antragstext",
            "Antragssteller"} |->
        CASE l = "Datum" -> "datum"
          [] l = "Name" -> "name"
          [] l = "Titel" -> "titel"
          [] l = "Inhalt" -> "inhalt"
          [] l = "Begründung" -> "begründung"
          [] l = "Antragstext" -> "antragstext"
          [] OTHER -> "antragssteller"]

\* C1: every PATCH a commit sends carries the id of the item that was
\* selected when `e` began the edit, whatever was or was not opened before.
C1_PatchCarriesSelectedId ==
    \A i \in DOMAIN sent :
        IsPatch(sent[i]) => (began # None /\ sent[i].json[1]["id"] = began[1])

\* C2: a create committed at the Tops level is scoped to the Sitzung last
\* opened with `o`, whose Tops are the ones listed; one committed at the
\* Anträge level to the Top last opened; one at the Sitzungen level has no
\* parent in its URL.
C2_CreateScopedToOpened ==
    \A i \in DOMAIN sent :
        IsPut(sent[i]) =>
            LET url == sent[i].url
                forSitzung == url = <<"api/topmanager/sitzung/">>
                forTop == /\ opened.s # None
                          /\ url = <<"api/topmanager/sitzung/", opened.s[1], "/top/">>
                forAntrag == /\ opened.t # None
                             /\ url = <<"api/topmanager/top/", opened.t[1], "/antrag/">>
            IN /\ forSitzung \/ forTop \/ forAntrag
               /\ (status = "running" /\ layout = Sitzungen) => forSitzung
               /\ (status = "running" /\ layout = Tops) =>
                      /\ forTop
                      /\ tops_selected_sitzung.items = SrvTops(server, opened.s[1])
               /\ (status = "running" /\ layout = Antraege) => forAntrag

C2_Witness ==
    /\ status = "running"
    /\ layout = Antraege
    /\ \E i \in DOMAIN sent : IsPut(sent[i])
    /\ opened.s = Some("s1")
    /\ opened.t = Some("t2")

\* C3: every q / Esc in the edit view sends exactly one mutating request,
\* a PATCH when editing and a PUT when creating; its body has one entry per
\* Param under the lower-cased label with the Param's text, and the PATCH
\* of a Top also carries the edited Top's id and the opened Sitzung's id.
C3_OneMutatingRequestPerExit ==
    committed # None =>
        LET had == committed[1]
            muts == SelectSeq(sent, IsMutating)
            body == muts[1].json[1]
            names == {WireName[had.items[j].titel] : j \in DOMAIN had.items}
        IN /\ Len(muts) = 1
           /\ muts[1].method = (IF had.editing # None THEN "PATCH" ELSE "PUT")
           /\ (had.editing # None) # (had.creating # None)
           /\ Cardinality(names) = Len(had.items)
           /\ (DOMAIN body) \ {"id", "sitzung_id"} = names
           /\ had.creating # None => DOMAIN body = names
           /\ \A j \in DOMAIN had.items :
                  body[WireName[had.items[j].titel]] = had.items[j].text
           /\ had.editing = Some(Tops) =>
                  /\ began # None /\ body["id"] = began[1]
                  /\ opened.s # None /\ body["sitzung_id"] = opened.s[1]

C3_Witness ==
    /\ status = "running"
    /\ committed # None
    /\ Len(sent) = 4
    /\ IsPatch(sent[1])
    /\ sent[1].json[1]["id"] = "t1"
    /\ sent[1].json[1]["sitzung_id"] = "s1"
    /\ sent[1].json[1]["titel"] = <<"c", "q">>

\* C4: never both currently_editing and currently_creating; the field
\* editor is open only while exactly one of them is set; the client starts
\* at the Sitzungen level with none of the three set.
C4_ModeSlots ==
    /\ ~(currently_editing # None /\ currently_creating # None)
    /\ edit_param_pop # None => (currently_editing # None \/ currently_creating # None)
    /\ keys = 0 => /\ layout = Sitzungen
                   /\ currently_editing = None
                   /\ currently_creating = None
                   /\ edit_param_pop = None

C4_Witness ==
    /\ edit_param_pop # None
    /\ currently_creating = Some(Antraege)
    /\ currently_editing = None

InRange(l) ==
    l.selected # None => (0 <= l.selected[1] /\ l.selected[1] < Len(l.items))

\* C5: in each of the four lists a set selection of a non-empty list is a
\* valid index, and next and previous on a non-empty list return without
\* panic and leave a valid index selected.
C5_SelectionInRange ==
    \A l \in AppLists :
        l.items # <<>> =>
            /\ InRange(l)
            /\ next(l, overflow_checks) # None
            /\ InRange(next(l, overflow_checks)[1])
            /\ previous(l, overflow_checks) # None
            /\ InRange(previous(l, overflow_checks)[1])

C5_Witness ==
    /\ status = "running"
    /\ Len(tops_selected_sitzung.items) = 2
    /\ tops_selected_sitzung.selected = Some(1)
    /\ Len(edit_buffer.items) = 4
    /\ edit_buffer.selected = Some(3)

\* C6: a list built by with_items selects index 0 when it has items and
\* nothing when it has none, and remembers no index; so the Tops list is
\* empty with no selection after the only Top is deleted and re-fetched.
C6_WithItemsSelection ==
    (/\ status = "running"
     /\ Len(sent) = 2
     /\ sent[1].method = "DELETE"
     /\ sent[1].url = <<"api/topmanager/top/">>) =>
        /\ tops_selected_sitzung.last_selected = None
        /\ tops_selected_sitzung.items # <<>> => tops_selected_sitzung.selected = Some(0)
        /\ tops_selected_sitzung.items = <<>> => tops_selected_sitzung.selected = None

\* C7: next and previous on a list built from no items return without
\* panic and change neither the items nor the selection.
C7_EmptyListNavigationNoop ==
    (/\ ops # <<>>
     /\ sl.items = <<>>
     /\ \A j \in DOMAIN ops : ops[j].op \in {"next", "previous"}) =>
        /\ status = "running"
        /\ sl.selected = ops[1].before

\* the last k operations on sl were all op
LastWere(k, op) ==
    /\ k <= Len(ops)
    /\ \A j \in (Len(ops) - k + 1)..Len(ops) : ops[j].op = op

\* the selection before the k-th last operation on sl
Before(k) == ops[Len(ops) - k + 1].before

\* C8: on a list of n > 0 items with index i selected, n calls of next
\* select i again and fewer calls do not; with 3 items next goes from 0 to
\* 1 and from 2 to 0.
C8_NextIsCircular ==
    \A k \in 1..MaxOps :
        (LastWere(k, "next") /\ sl.items # <<>> /\ Before(k) # None) =>
            /\ status = "running"
            /\ k = Len(sl.items) => sl.selected = Before(k)
            /\ k < Len(sl.items) => sl.selected # Before(k)
            /\ (k = 1 /\ Len(sl.items) = 3 /\ Before(1) = Some(0)) => sl.selected = Some(1)
            /\ (k = 1 /\ Len(sl.items) = 3 /\ Before(1) = Some(2)) => sl.selected = Some(0)

C8_Witness ==
    /\ Len(sl.items) = 3
    /\ LastWere(3, "next")
    /\ Before(3) = Some(1)
    /\ sl.selected = Some(1)

\* C9: on a non-empty list with a valid index i selected, next then
\* previous, and previous then next, select i again; previous from index 0
\* selects the last index.
C9_PreviousInvertsNext ==
    (sl.items # <<>> /\ Len(ops) >= 1) =>
        /\ (LastWere(1, "previous") /\ Before(1) = Some(0)) =>
               sl.selected = Some(Len(sl.items) - 1)
        /\ (/\ Len(ops) >= 2
            /\ Before(2) # None
            /\ \/ ops[Len(ops) - 1].op = "next" /\ ops[Len(ops)].op = "previous"
               \/ ops[Len(ops) - 1].op = "previous" /\ ops[Len(ops)].op = "next") =>
               /\ status = "running"
               /\ sl.selected = Before(2)

C9_Witness ==
    /\ Len(sl.items) = 3
    /\ Len(ops) = 2
    /\ ops[1] = [op |-> "previous", before |-> Some(0)]
    /\ ops[2] = [op |-> "next", before |-> Some(2)]
    /\ sl.selected = Some(0)

\* C10: on a non-empty list with index i selected, unselect leaves nothing
\* selected and the next or previous after it selects i itself.
C10_UnselectRemembers ==
    (sl.items # <<>> /\ Len(ops) >= 1) =>
        /\ LastWere(1, "unselect") => sl.selected = None
        /\ (/\ Len(ops) >= 2
            /\ ops[Len(ops) - 1].op = "unselect"
            /\ Before(2) # None
            /\ ops[Len(ops)].op \in {"next", "previous"}) =>
               /\ status = "running"
               /\ sl.selected = Before(2)

C10_Witness ==
    /\ Len(sl.items) = 4
    /\ Len(ops) = 3
    /\ ops[2] = [op |-> "unselect", before |-> Some(3)]
    /\ ops[3].op = "previous"
    /\ sl.selected = Some(3)

\* a list as a fetch leaves it: the response, index 0 selected, nothing
\* remembered
Fresh(items) == [items |-> items, selected |-> Some(0), last_selected |-> None]

\* C11: `o` on the selected Sitzung s makes s the opened Sitzung, sends one
\* GET of the Tops under s.id, replaces the Tops list by the response with
\* index 0 selected and nothing remembered, and shows the Tops, leaving the
\* Sitzungen list as it was; `o` on the selected Top does the same for the
\* Anträge under it.
C11_OpenDrillsDown ==
    /\ (key = "open_sitzung" /\ status = "running") =>
          LET s == SelectedItem(was.sitzungen) IN
          /\ s # None
          /\ sitzung = s[1]
          /\ sent = <<[method |-> "GET",
                       url |-> <<"api/topmanager/sitzung/", s[1].id, "/tops/">>,
                       cookie |-> None, json |-> None]>>
          /\ tops_selected_sitzung = Fresh(SrvTops(was.server, s[1].id))
          /\ layout = Tops
          /\ sitzungen = was.sitzungen
    /\ (key = "open_top" /\ status = "running") =>
          LET t == SelectedItem(was.tops_selected_sitzung) IN
          /\ t # None
          /\ top = t[1]
          /\ sent = <<[method |-> "GET",
                       url |-> <<"api/topmanager/tops/", t[1].id, "/anträge/">>,
                       cookie |-> None, json |-> None]>>
          /\ antraege_selected_top = Fresh(SrvAntraege(was.server, t[1].id))
          /\ layout = Antraege
          /\ sitzungen = was.sitzungen
          /\ tops_selected_sitzung = was.tops_selected_sitzung

\* the Sitzung is opened a second time, over a Tops list that remembered an
\* index
C11_Witness ==
    /\ key = "open_sitzung"
    /\ status = "running"
    /\ was.tops_selected_sitzung.items # <<>>
    /\ was.tops_selected_sitzung.last_selected # None
    /\ Len(tops_selected_sitzung.items) = 2

\* the three lists and the two opened resources are as the last step found
\* them
BrowseUnchanged ==
    /\ sitzungen = was.sitzungen
    /\ tops_selected_sitzung = was.tops_selected_sitzung
    /\ antraege_selected_top = was.antraege_selected_top
    /\ sitzung = was.sitzung
    /\ top = was.top

\* C12: q / Esc while the Tops or the Anträge are shown moves exactly one
\* level up, sends no request and leaves the three lists (items, selection,
\* remembered index) and the opened Sitzung and Top unchanged.
C12_BackKeepsLists ==
    key \in {"tops_back", "antraege_back"} =>
        /\ status = "running"
        /\ was.layout = Tops => layout = Sitzungen
        /\ was.layout = Antraege => layout = Tops
        /\ was.layout \in {Tops, Antraege}
        /\ sent = <<>>
        /\ BrowseUnchanged

\* back from the two Tops of the first Sitzung with the second Top selected
C12_Witness ==
    /\ key = "tops_back"
    /\ layout = Sitzungen
    /\ sitzungen.selected = Some(0)
    /\ sitzung.id = "s1"
    /\ Len(tops_selected_sitzung.items) = 2
    /\ tops_selected_sitzung.selected = Some(1)

\* C13: when the GET that `o` sends fails, the client keeps running at the
\* level it was on, with the lists and opened resources it had. (After `o`
\* sent its GET the client runs, and either shows the level below or is
\* exactly where it was.)
C13_FailedOpenStays ==
    (key \in {"open_sitzung", "open_top"} /\ sent # <<>>) =>
        /\ status = "running"
        /\ \/ key = "open_sitzung" /\ layout = Tops
           \/ key = "open_top" /\ layout = Antraege
           \/ layout = was.layout /\ BrowseUnchanged

\* the labels of the Params in the edit buffer, in order
Labels == [i \in DOMAIN edit_buffer.items |-> edit_buffer.items[i].titel]

\* the texts of the Params in the edit buffer, in order
Texts == [i \in DOMAIN edit_buffer.items |-> edit_buffer.items[i].text]

\* C14: `e` on the selected item r sends exactly one GET of r.id for the
\* kind shown and then edits that kind, the edit buffer holding under the
\* fixed labels of the kind the values the store returned for r.id (the
\* date and the JSON content as the client prints them), whatever the list
\* item holds.
C14_EditStagesFetched ==
    /\ (key = "edit_sitzung" /\ status = "running") =>
          LET it == SelectedItem(was.sitzungen)
              r == SrvSitzung(was.server, it[1].id)
          IN /\ it # None /\ r # None
             /\ sent = <<[method |-> "GET",
                          url |-> <<"api/topmanager/sitzung/", it[1].id, "/">>,
                          cookie |-> None, json |-> None]>>
             /\ currently_editing = Some(Sitzungen)
             /\ currently_creating = None
             /\ Labels = <<"Datum", "Name">>
             /\ Texts = <<DateToString(r[1].datum), r[1].name>>
    /\ (key = "edit_top" /\ status = "running") =>
          LET it == SelectedItem(was.tops_selected_sitzung)
              r == SrvTop(was.server, it[1].id)
          IN /\ it # None /\ r # None
             /\ sent = <<[method |-> "GET",
                          url |-> <<"api/topmanager/tops/", it[1].id, "/">>,
                          cookie |-> None, json |-> None]>>
             /\ currently_editing = Some(Tops)
             /\ currently_creating = None
             /\ Labels = <<"Titel", "Inhalt">>
             /\ Texts = <<r[1].name, JsonToString(r[1].inhalt)>>
    /\ (key = "edit_antag" /\ status = "running") =>
          LET it == SelectedItem(was.antraege_selected_top)
              r == SrvAntrag(was.server, it[1].id)
          IN /\ it # None /\ r # None
             /\ sent = <<[method |-> "GET",
                          url |-> <<"api/topmanager/antrag/", it[1].id, "/">>,
                          cookie |-> None, json |-> None]>>
             /\ currently_editing = Some(Antraege)
             /\ currently_creating = None
             /\ Labels = <<"Titel", "Begründung", "Antragstext">>
             /\ Texts = <<r[1].titel, r[1].begruendung, r[1].antragstext>>

\* `e` on a Top another client renamed after the list was fetched: the list
\* item holds the old name, the edit buffer the new one
C14_Witness ==
    /\ key = "edit_top"
    /\ status = "running"
    /\ SelectedItem(was.tops_selected_sitzung)[1].name # OtherName
    /\ edit_buffer.items[1].text = OtherName

\* the client is browsing: no edit, no create and no field editor is open
Browsing ==
    /\ status = "running"
    /\ currently_editing = None
    /\ currently_creating = None
    /\ edit_param_pop = None

\* C15: the edit buffer is empty whenever the client is browsing, and `p`
\* leaves in it exactly the labels of the kind shown (Sitzung: Datum, Name;
\* Top: Titel, Inhalt; Antrag: Titel, Begründung, Antragstext,
\* Antragssteller), each with empty text.
C15_CreateStagesEmptyParams ==
    /\ Browsing => edit_buffer.items = <<>>
    /\ key \in {"create_sitzung", "create_top", "create_antrag"} =>
          /\ status = "running"
          /\ currently_creating = Some(was.layout)
          /\ currently_editing = None
          /\ Labels = (CASE was.layout = Sitzungen -> <<"Datum", "Name">>
                         [] was.layout = Tops -> <<"Titel", "Inhalt">>
                         [] OTHER -> <<"Titel", "Begründung", "Antragstext",
                                       "Antragssteller">>)
          /\ \A i \in DOMAIN Texts : Texts[i] = <<>>

\* `p` on the Anträge after an earlier create was committed and stored
C15_Witness ==
    /\ key = "create_antrag"
    /\ Len(server.antraege) = 2
    /\ Len(edit_buffer.items) = 4

\* C16: `e` on r followed by q / Esc with no Param changed sends a PATCH
\* whose body gives every editable field of r the value the store holds for
\* it, under the field's wire name.
C16_UnmodifiedEditKeeps ==
    (/\ key = "exit_edit"
     /\ status = "running"
     /\ committed # None
     /\ committed[1].editing # None
     /\ began # None
     /\ Len(SelectSeq(sent, IsPatch)) = 1) =>
        LET kind == committed[1].editing[1]
            kept == committed[1].items
            body == SelectSeq(sent, IsPatch)[1].json[1]
        IN CASE kind = Sitzungen ->
                  LET r == SrvSitzung(was.server, began[1]) IN
                  (r # None /\ kept = SitzungParams(r[1])) =>
                      /\ body["name"] = r[1].name
                      /\ ParseDate(body["datum"]) = Some(r[1].datum)
             [] kind = Tops ->
                  LET r == SrvTop(was.server, began[1]) IN
                  (r # None /\ kept = TopParams(r[1])) =>
                      /\ body["titel"] = r[1].name
                      /\ JsonString(body["inhalt"]) = r[1].inhalt
             [] OTHER ->
                  LET r == SrvAntrag(was.server, began[1]) IN
                  (r # None /\ kept = AntragParams(r[1])) =>
                      /\ body["titel"] = r[1].titel
                      /\ body["begründung"] = r[1].begruendung
                      /\ body["antragstext"] = r[1].antragstext

\* the kind the last commit edited or created
CommittedKind ==
    IF committed[1].editing # None THEN committed[1].editing[1]
    ELSE committed[1].creating[1]

\* C17: after q / Esc in the edit view has returned, both mode slots are
\* empty, the edit buffer is empty and the client browses the level the
\* edit or create was started from: the level of the kind it committed.
C17_ExitReturnsToBrowsing ==
    (key = "exit_edit" /\ status = "running") =>
        /\ committed # None
        /\ currently_editing = None
        /\ currently_creating = None
        /\ edit_param_pop = None
        /\ edit_buffer.items = <<>>
        /\ Handler = (CASE CommittedKind = Sitzungen -> "handle_sitzungen"
                        [] CommittedKind = Tops -> "handle_tops"
                        [] OTHER -> "handle_anträge")
        /\ layout = CommittedKind
        /\ layout = was.layout

\* a create of an Antrag was committed and stored
C17_Witness ==
    /\ key = "exit_edit"
    /\ status = "running"
    /\ committed # None
    /\ committed[1].creating = Some(Antraege)
    /\ Len(server.antraege) = Len(was.server.antraege) + 1
    /\ layout = Antraege

\* C18: when the PATCH or PUT that q / Esc sends fails, by a transport
\* error or by the server rejecting it, the edit is still discarded and the
\* lists are still fetched again: the first GET of the refresh follows the
\* write, and if the three GETs return the client is browsing with an empty
\* edit buffer.
C18_FailedWriteStillDiscards ==
    (key = "exit_edit" /\ committed # None /\ SelectSeq(sent, IsMutating) # <<>>) =>
        /\ Len(sent) >= 2
        /\ sent[2].method = "GET"
        /\ Len(sent) = 4 => Browsing /\ edit_buffer.items = <<>>

\* a DELETE names id: in its body for a Sitzung or a Top, in its URL for an
\* Antrag
DeleteNames(r, kind, id) ==
    /\ r.method = "DELETE"
    /\ CASE kind = Sitzungen ->
              r.url = <<"api/topmanager/sitzung/">> /\ r.json = Some([x \in {"id"} |-> id])
         [] kind = Tops ->
              r.url = <<"api/topmanager/top/">> /\ r.json = Some([x \in {"id"} |-> id])
         [] OTHER ->
              r.url = <<"api/topmanager/antrag/", id, "/">> /\ r.json = None

\* C19: `d` on the selected item r sends exactly one DELETE, for r.id, and
\* then one GET of the list shown (all Sitzungen; the Tops of the opened
\* Sitzung; the Anträge of the opened Top) whose response replaces that
\* list: what the list holds afterwards is what the store holds, deleted or
\* not. The other two lists, the level and the opened Sitzung and Top are
\* unchanged.
C19_DeleteRefetches ==
    (key \in {"delete_sitzung", "delete_top", "delete_antrag"} /\ status = "running") =>
        /\ Len(sent) = 2
        /\ sent[2].method = "GET"
        /\ layout = was.layout
        /\ sitzung = was.sitzung
        /\ top = was.top
        /\ CASE key = "delete_sitzung" ->
                  LET it == SelectedItem(was.sitzungen) IN
                  /\ it # None
                  /\ DeleteNames(sent[1], Sitzungen, it[1].id)
                  /\ sent[2].url = <<"api/topmanager/sitzungen/">>
                  /\ sitzungen = Fresh(SrvSitzungen(server))
                  /\ tops_selected_sitzung = was.tops_selected_sitzung
                  /\ antraege_selected_top = was.antraege_selected_top
             [] key = "delete_top" ->
                  LET it == SelectedItem(was.tops_selected_sitzung) IN
                  /\ it # None
                  /\ DeleteNames(sent[1], Tops, it[1].id)
                  /\ sent[2].url = <<"api/topmanager/sitzung/", sitzung.id, "/tops/">>
                  /\ tops_selected_sitzung = Fresh(SrvTops(server, sitzung.id))
                  /\ sitzungen = was.sitzungen
                  /\ antraege_selected_top = was.antraege_selected_top
             [] OTHER ->
                  LET it == SelectedItem(was.antraege_selected_top) IN
                  /\ it # None
                  /\ DeleteNames(sent[1], Antraege, it[1].id)
                  /\ sent[2].url = <<"api/topmanager/tops/", top.id, "/anträge/">>
                  /\ antraege_selected_top = Fresh(SrvAntraege(server, top.id))
                  /\ sitzungen = was.sitzungen
                  /\ tops_selected_sitzung = was.tops_selected_sitzung

\* the server rejected the DELETE of the second Top: the list still shows
\* both Tops
C19_Witness ==
    /\ key = "delete_top"
    /\ status = "running"
    /\ was.tops_selected_sitzung.selected = Some(1)
    /\ server = was.server
    /\ Len(tops_selected_sitzung.items) = 2

\* C20: the token is the one obtained at startup in every state, and every
\* PUT, PATCH and DELETE carries it as the cookie access_token.
C20_TokenOnEveryWrite ==
    /\ token = Token
    /\ \A i \in DOMAIN sent :
          sent[i].method \in {"PUT", "PATCH", "DELETE"} =>
              sent[i].cookie = Some(<<"access_token=", Token>>)

\* an Antrag is deleted three keys after startup
C20_Witness ==
    /\ key = "delete_antrag"
    /\ status = "running"
    /\ sent[1].method = "DELETE"
    /\ sent[1].cookie # None
    /\ keys >= 3

\* C21: the program exits normally only by q / Esc read while the Sitzungen
\* are shown and no edit, create or field editor is open; q / Esc read
\* anywhere else never exits it.
C21_ExitOnlyFromSitzungen ==
    /\ status = "exited" =>
          /\ key = "exit_app"
          /\ was.layout = Sitzungen
          /\ was.currently_editing = None
          /\ was.currently_creating = None
          /\ was.edit_param_pop = None
    /\ key \in {"tops_back", "antraege_back", "exit_edit", "text_area_esc",
                "text_area_key"} => status # "exited"

\* the program exits after a Sitzung was opened and left again
C21_Witness ==
    /\ status = "exited"
    /\ key = "exit_app"
    /\ sitzung.id = "s1"

\* the list has no selected item: nothing is selected, or the selected
\* index is not one of its items
NoSelection(l) == l.selected = None \/ l.selected[1] >= Len(l.items)

\* the list o, e and d read at each level, and e in the edit view
ListRead ==
    CASE key \in {"open_sitzung", "edit_sitzung", "delete_sitzung"} -> was.sitzungen
      [] key \in {"open_top", "edit_top", "delete_top"} -> was.tops_selected_sitzung
      [] key \in {"edit_antag", "delete_antrag"} -> was.antraege_selected_top
      [] OTHER -> was.edit_buffer

\* C22: o, e or d read while browsing, or e read in the edit view, with no
\* selected item in the list it reads ends the process with a panic, and
\* that key sends no request.
C22_NoSelectionIsFatal ==
    (/\ key \in {"open_sitzung", "edit_sitzung", "delete_sitzung", "open_top",
                 "edit_top", "delete_top", "edit_antag", "delete_antrag",
                 "edit_value"}
     /\ was # Forgotten
     /\ NoSelection(ListRead)) =>
        /\ status = "panicked"
        /\ sent = <<>>

\* d on the empty Tops list of the second Sitzung, where with_items left
\* index 0 selected
C22_Witness ==
    /\ key = "delete_top"
    /\ status = "panicked"
    /\ was # Forgotten
    /\ was.tops_selected_sitzung.items = <<>>
    /\ was.tops_selected_sitzung.selected = Some(0)
    /\ sent = <<>>

\* C23: a commit at the level of the Tops or of the Anträge leaves the lists
\* of the levels above it as they were, items and selection: the Sitzungen
\* list in both cases, and the Tops list too for an Antrag.
C23_CommitKeepsParentLists ==
    (key = "exit_edit" /\ status = "running" /\ committed # None) =>
        /\ CommittedKind \in {Tops, Antraege} => sitzungen = was.sitzungen
        /\ CommittedKind = Antraege =>
              tops_selected_sitzung = was.tops_selected_sitzung

\* the keys read in the edit view and in the field editor, q / Esc of the
\* edit view apart
InsideEdit ==
    \/ key \in {"edit_unselect", "edit_next", "edit_previous", "edit_value",
                "text_area_key", "text_area_esc"}
    \/ /\ key = "other_key"
       /\ was.currently_editing # None \/ was.currently_creating # None

\* C24: in the edit view and in the field editor no key but the q / Esc
\* that commits sends a request or changes the three lists, the level or
\* the opened Sitzung and Top. In the field editor a key other than Esc
\* changes nothing but the text area, and Esc changes nothing but the text
\* of the selected Param and closes the field editor.
C24_EditingIsLocal ==
    /\ InsideEdit => sent = <<>>
    /\ (InsideEdit /\ status = "running") =>
          /\ BrowseUnchanged
          /\ layout = was.layout
          /\ currently_editing = was.currently_editing
          /\ currently_creating = was.currently_creating
    /\ (key = "text_area_key" /\ status = "running") =>
          /\ edit_buffer = was.edit_buffer
          /\ edit_param_pop = was.edit_param_pop
    /\ (key = "text_area_esc" /\ status = "running") =>
          /\ edit_param_pop = None
          /\ current_text_area = was.current_text_area
          /\ edit_buffer.selected = was.edit_buffer.selected
          /\ edit_buffer.last_selected = was.edit_buffer.last_selected
          /\ Len(edit_buffer.items) = Len(was.edit_buffer.items)
          /\ \A i \in DOMAIN edit_buffer.items :
                /\ edit_buffer.items[i].titel = was.edit_buffer.items[i].titel
                /\ Some(i - 1) # edit_buffer.selected =>
                      edit_buffer.items[i].text = was.edit_buffer.items[i].text

\* Esc in the field editor of a new Top after a character was typed
C24_Witness ==
    /\ key = "text_area_esc"
    /\ status = "running"
    /\ was.layout = Tops
    /\ currently_creating = Some(Tops)
    /\ edit_buffer # was.edit_buffer

\* C25: e on the selected Param followed at once by Esc leaves the text of
\* that Param, and every other Param, as it was, also for a text of several
\* lines. (Esc is read with the text area as e filled it.)
C25_FieldEditorRoundTrip ==
    (/\ key = "text_area_esc"
     /\ status = "running"
     /\ ~NoSelection(was.edit_buffer)
     /\ was.current_text_area =
           insert_str(was.edit_buffer.items[was.edit_buffer.selected[1] + 1].text)) =>
        edit_buffer = was.edit_buffer

\* C26: after one or more unselect calls in a row, the first of them made
\* with index i selected, the next or previous that follows selects i.
C26_RepeatedUnselectRemembers ==
    \A j \in DOMAIN ops :
        (/\ j < Len(ops)
         /\ sl.items # <<>>
         /\ ops[j].before # None
         /\ \A m \in j..(Len(ops) - 1) : ops[m].op = "unselect"
         /\ ops[Len(ops)].op \in {"next", "previous"}) =>
            /\ status = "running"
            /\ sl.selected = ops[j].before

\* the URL of a GET of the Tops under a Sitzung, of the Anträge under a Top
IsGetTops(r) ==
    r.method = "GET" /\ Len(r.url) = 3 /\ r.url[1] = "api/topmanager/sitzung/"
                     /\ r.url[3] = "/tops/"

IsGetAntraege(r) ==
    r.method = "GET" /\ Len(r.url) = 3 /\ r.url[1] = "api/topmanager/tops/"
                     /\ r.url[3] = "/anträge/"

\* C27: every GET of the Tops of a Sitzung names a Sitzung opened with `o`
\* before, and every GET of the Anträge of a Top a Top opened before: none
\* names the id of a resource that was never opened. (The GET `o` itself
\* sends names the selected item: C11.)
C27_ChildFetchScopedToOpened ==
    \A i \in DOMAIN sent :
        /\ (IsGetTops(sent[i]) /\ key # "open_sitzung") =>
              /\ opened.s # None
              /\ sent[i].url[2] = opened.s[1]
        /\ (IsGetAntraege(sent[i]) /\ key # "open_top") =>
              /\ opened.t # None
              /\ sent[i].url[2] = opened.t[1]

\* how many Esc presses a state is from the exit: one per level shown
\* (Sitzungen 1, Tops 2, Anträge 3), one more in the edit view, one more in
\* the field editor
EscSteps(lay, editing, creating, pop) ==
    (CASE lay = Sitzungen -> 1 [] lay = Tops -> 2 [] OTHER -> 3)
    + (IF editing # None \/ creating # None THEN 1 ELSE 0)
    + (IF pop # None THEN 1 ELSE 0)

EscStepsNow ==
    IF status = "exited" THEN 0
    ELSE EscSteps(layout, currently_editing, currently_creating, edit_param_pop)

\* the actions Esc runs, one in each handler
EscKeys == {"text_area_esc", "exit_edit", "antraege_back", "tops_back", "exit_app"}

\* C28: every running state is at most 5 Esc presses from the exit; an Esc
\* press moves exactly one step outward (field editor, edit view, Anträge,
\* Tops, Sitzungen, exit), and it ends in a panic only when a request it
\* sent failed.
C28_EscMovesOutward ==
    /\ status = "running" => EscStepsNow \in 1..5
    /\ (key \in EscKeys /\ status # "panicked") =>
          EscStepsNow = EscSteps(was.layout, was.currently_editing,
                                 was.currently_creating, was.edit_param_pop) - 1
    /\ (key \in EscKeys /\ status = "panicked") => sent # <<>>

\* Esc in the field editor of a new Antrag, five presses from the exit
C28_Witness ==
    /\ key = "text_area_esc"
    /\ status = "running"
    /\ EscSteps(was.layout, was.currently_editing, was.currently_creating,
                was.edit_param_pop) = 5
    /\ EscStepsNow = 4

====
